---- MODULE Spec2Model ----
(***************************************************************************)
(* GatewayState Durable Object (start/restart lock, ensure / restart /     *)
(* state handlers) and the gateway lifecycle engine it drives              *)
(* (isGatewayHealthy, stopGateway, waitForPortFree,                        *)
(* ensureGatewayRunningLogic, restartGatewayLogic).                        *)
(*                                                                         *)
(* The engine modelled is the one defined alongside the Durable Object     *)
(* (health policy: status 2xx-4xx within the timeout; step 4 port fix-up;  *)
(* discovery retry). src/gateway/lifecycle.ts holds an earlier revision of *)
(* the same functions.                                                     *)
(*                                                                         *)
(* Granularity: one model step per `await` of an external capability.      *)
(* JavaScript runs every continuation to its next await without            *)
(* interleaving, and drains promise reactions (microtasks) before any new  *)
(* event is delivered; MicrotaskPending encodes that priority.             *)
(***************************************************************************)
EXTENDS Integers, Sequences, FiniteSets, TLC

\* ---- bounds of the model ------------------------------------------------
NumReq == 2        \* ensure / restart requests issued to the one owner
MaxProcs == 2      \* gateway processes the sandbox can start in one run
MaxPolls == 2      \* health polls waitForPortFree makes before its deadline

Reqs == 1..NumReq
ProcIds == 1..MaxProcs
NoProc == 0        \* gatewayProcessId === null
NoLock == 0        \* startLock === null

\* HTTP statuses a containerFetch can answer with
Statuses == {101, 200, 404, 499, 500, 599, 600}

VARIABLES
  state,      \* GatewayState.state : GatewayStateRef
  startLock,  \* GatewayState.startLock : the request whose promise is installed
  promise,    \* settlement of the promise each request installed in startLock
  perr,       \* rejection reason of that promise
  kind,       \* "ensure" | "restart" : which handler the request entered
  pc,         \* position of each request (the await it is suspended at)
  awaiting,   \* the promise a request in runWithLock's while loop awaits
  loc,        \* engine locals of each request
  resp,       \* the Response each handler returned
  hist,       \* per-request record of what its engine invocation did
  alive,      \* sandbox: live gateway processes
  portOwner,  \* sandbox: the process listening on MOLTBOT_PORT (NoProc: free)
  nextId,     \* sandbox: identifier the next started process receives
  clock,      \* Date.now()
  observed,   \* body of the last Response of handleGetState
  probe       \* what the isGatewayHealthy call that just completed saw and returned

vars == <<state, startLock, promise, perr, kind, pc, awaiting, loc, resp, hist,
          alive, portOwner, nextId, clock, observed, probe>>

lockVars == <<startLock, promise, perr, resp>>
sandboxVars == <<alive, portOwner, nextId>>

\* ---- GatewayStateRef and the constructor --------------------------------
InitialState ==
  [gatewayProcessId |-> NoProc, lastGatewayStartAttempt |-> 0,
   gatewayReady |-> FALSE, lastHealthCheck |-> 0]

NoLocals ==
  [processId |-> NoProc,   \* restartGatewayLogic: const processId
   stopArg |-> NoProc,     \* stopGateway: parameter processId
   existing |-> NoProc,    \* existing / existingProcess / proc found
   process |-> NoProc,     \* ensureGatewayRunningLogic: let process
   phase |-> "none",       \* "restart": in restartGatewayLogic's own body
   polls |-> 0]            \* iterations waitForPortFree has made

NoHistory ==
  [invocations |-> 0,      \* engine invocations the request executed
   starts |-> 0,           \* sandbox.startProcess(start-moltbot.sh) calls
   calls |-> {},           \* external capabilities the invocation called
   pre |-> [gatewayReady |-> FALSE, gatewayProcessId |-> NoProc],
                           \* cached ready / processId when the invocation began
   stages |-> <<>>,        \* restartGatewayLogic steps completed, in order
   killRaised |-> FALSE,   \* a kill() inside stopGateway raised
   killed |-> {},          \* processes the invocation's kill / gateway stop ended
   mounted |-> FALSE,      \* mountR2Storage resolved
   exit |-> "none"]        \* the return / throw statement that ended it

NoResponse == [status |-> 0, ok |-> FALSE, gatewayReady |-> FALSE,
               processId |-> NoProc, error |-> "none"]

Init ==
  /\ state = InitialState
  /\ startLock = NoLock
  /\ promise = [r \in Reqs |-> "none"]
  /\ perr = [r \in Reqs |-> "none"]
  /\ kind = [r \in Reqs |-> "none"]
  /\ pc = [r \in Reqs |-> "idle"]
  /\ awaiting = [r \in Reqs |-> NoLock]
  /\ loc = [r \in Reqs |-> NoLocals]
  /\ resp = [r \in Reqs |-> NoResponse]
  /\ hist = [r \in Reqs |-> NoHistory]
  /\ alive = {}
  /\ portOwner = NoProc
  /\ nextId = 1
  /\ clock = 1
  /\ observed = [seen |-> FALSE]
  /\ probe = [seen |-> FALSE]

\* Any event other than a state request: no handleGetState Response is out.
NotObserved == [seen |-> FALSE]
\* Any event other than the completion of an isGatewayHealthy call.
NoProbe == [seen |-> FALSE]
Unobserved == observed' = NotObserved /\ probe' = NoProbe

\* ---- JavaScript scheduling ----------------------------------------------
Settled(r) == promise[r] \in {"fulfilled", "rejected"}

\* A continuation of `await this.startLock` is queued: it runs before any
\* other event (request, capability completion) is delivered.
MicrotaskPending ==
  \E w \in Reqs : pc[w] = "waiting" /\ Settled(awaiting[w])

EnginePcs ==
  {"e_entry", "e_probe1", "e_disc1", "e_disc2", "e_find", "e_waitExisting",
   "e_killExisting", "e_probe2", "e_mount", "e_start", "e_waitPort",
   "e_getLogs", "r_entry", "r_clearLocks", "s_graceful", "s_list",
   "s_forcekill", "s_find", "s_kill", "w_poll"}

InEngine(r) == pc[r] \in EnginePcs

\* ---- runWithLock --------------------------------------------------------
\* `while (this.startLock)`: the loop condition, evaluated on entry and again
\* after every await of the installed promise.
\* (variant: a test that never finds the slot occupied)
LockHeldNever(lock) == FALSE
LockHeld(lock) == lock # NoLock

\* The async closure starts: fn() runs to its first await, the promise is
\* installed in startLock.
Acquire(r) ==
  /\ startLock' = r
  /\ promise' = [promise EXCEPT ![r] = "pending"]
  /\ pc' = [pc EXCEPT ![r] = IF kind'[r] = "ensure" THEN "e_entry" ELSE "r_entry"]
  /\ hist' = [hist EXCEPT ![r].invocations = @ + 1, ![r].pre = [gatewayReady |-> state.gatewayReady,
                                   gatewayProcessId |-> state.gatewayProcessId]]
  /\ UNCHANGED <<perr, resp>>

\* fetch(): path 'ensure' or 'restart' -> handleEnsure / handleRestart ->
\* runWithLock up to its first suspension.
Issue(r, k) ==
  /\ pc[r] = "idle"
  /\ \A q \in Reqs : q < r => pc[q] # "idle"   \* requests are numbered by arrival
  /\ ~MicrotaskPending
  /\ clock' = clock + 1
  /\ kind' = [kind EXCEPT ![r] = k]
  /\ IF LockHeld(startLock)
       THEN /\ awaiting' = [awaiting EXCEPT ![r] = startLock]
            /\ pc' = [pc EXCEPT ![r] = "waiting"]
            /\ UNCHANGED <<startLock, promise, perr, resp, hist>>
       ELSE /\ Acquire(r)
            /\ UNCHANGED awaiting
  /\ UNCHANGED <<state, loc, alive, portOwner, nextId>>
  /\ Unobserved

\* The handler's catch: Response 503 {ok:false, error: message}
FailureResponse(msg) ==
  [status |-> 503, ok |-> FALSE, gatewayReady |-> FALSE, processId |-> NoProc,
   error |-> msg]

\* The handler's success Response, read from this.state
SuccessResponse(st) ==
  [status |-> 200, ok |-> TRUE, gatewayReady |-> st.gatewayReady,
   processId |-> st.gatewayProcessId, error |-> "none"]

\* Continuation of `await this.startLock`: a rejected promise throws out of
\* runWithLock into the handler's catch; otherwise the loop re-tests the slot.
\* Reactions of one promise run in the order the awaits registered, which is
\* the order of arrival.
WaiterResume(r) ==
  /\ pc[r] = "waiting"
  /\ Settled(awaiting[r])
  /\ \A q \in Reqs : q < r => ~(pc[q] = "waiting" /\ Settled(awaiting[q]))
  /\ IF promise[awaiting[r]] = "rejected"
       THEN /\ pc' = [pc EXCEPT ![r] = "done"]
            /\ resp' = [resp EXCEPT ![r] = FailureResponse(perr[awaiting[r]])]
            /\ hist' = [hist EXCEPT ![r].exit = "inherited"]
            /\ UNCHANGED <<startLock, promise, perr, awaiting, kind>>
       ELSE IF LockHeld(startLock)
         THEN /\ awaiting' = [awaiting EXCEPT ![r] = startLock]
              /\ UNCHANGED <<startLock, promise, perr, resp, hist, pc, kind>>
         ELSE /\ UNCHANGED kind
              /\ Acquire(r)
              /\ UNCHANGED awaiting
  /\ UNCHANGED <<state, loc, alive, portOwner, nextId, clock>>
  /\ Unobserved


\* The closure's `finally { this.startLock = null }` followed by the handler
\* building its Response: all within one drain of the microtask queue. The
\* invocation's locals are gone.
Return(r, st) ==
  /\ pc' = [pc EXCEPT ![r] = "done"]
  /\ loc' = [loc EXCEPT ![r] = NoLocals]
  /\ startLock' = NoLock
  /\ promise' = [promise EXCEPT ![r] = "fulfilled"]
  /\ resp' = [resp EXCEPT ![r] = SuccessResponse(st)]
  /\ UNCHANGED perr

Throw(r, msg) ==
  /\ pc' = [pc EXCEPT ![r] = "done"]
  /\ loc' = [loc EXCEPT ![r] = NoLocals]
  /\ startLock' = NoLock
  /\ promise' = [promise EXCEPT ![r] = "rejected"]
  /\ perr' = [perr EXCEPT ![r] = msg]
  /\ resp' = [resp EXCEPT ![r] = FailureResponse(msg)]

\* suspend at the next await p with locals l
Advance(r, p, l) ==
  /\ pc' = [pc EXCEPT ![r] = p]
  /\ loc' = [loc EXCEPT ![r] = l]
  /\ UNCHANGED lockVars

Did(h, c) == [h EXCEPT !.calls = @ \cup {c}]
Exited(h, ex) == [h EXCEPT !.exit = ex]
Staged(h, s) == [h EXCEPT !.stages = @ \o s]
Record(r, h) == hist' = [hist EXCEPT ![r] = h]

\* ---- sandbox capabilities -------------------------------------------------
\* sandbox.containerFetch raced against HEALTH_CHECK_TIMEOUT_MS: a Response
\* with a status, or a rejection (refused, timeout).
ProbeOutcomes ==
  {[threw |-> TRUE, status |-> 0]} \cup
  (IF portOwner = NoProc THEN {}
   ELSE {[threw |-> FALSE, status |-> s] : s \in Statuses})

\* (variant: catch { return true })
isGatewayHealthyOnError(o) ==
  IF o.threw THEN TRUE ELSE o.status >= 200 /\ o.status < 500

isGatewayHealthy(o) ==
  IF o.threw THEN FALSE ELSE o.status >= 200 /\ o.status < 500

\* The try { ... } catch { return false } around the whole body of
\* isGatewayHealthy: TRUE = the returned promise rejects.
\* (variant: no catch, a rejected fetch or the timeout rejects the probe)
ProbeRejectsOnThrow(o) == o.threw
ProbeRejects(o) == FALSE

\* request r's isGatewayHealthy call completed on outcome o
Probed(r, o) ==
  /\ observed' = NotObserved
  /\ probe' = [seen |-> TRUE, by |-> r, threw |-> o.threw, status |-> o.status,
               rejected |-> ProbeRejects(o), healthy |-> isGatewayHealthy(o)]

\* findExistingMoltbotProcess: a live gateway process, or null (also when the
\* process listing lags behind)
FindOutcomes == alive \cup {NoProc}

\* process.kill() that resolved
Killed(p) ==
  /\ alive' = alive \ {p}
  /\ portOwner' = IF portOwner = p THEN NoProc ELSE portOwner
  /\ UNCHANGED nextId

\* process.waitForPort(MOLTBOT_PORT, {mode:'tcp'}): resolves once the port
\* accepts connections (the process binds it, or it is already bound),
\* rejects on timeout or process exit.
PortOpens(p) ==
  /\ portOwner # NoProc \/ p \in alive
  /\ portOwner' = IF portOwner = NoProc THEN p ELSE portOwner
  /\ UNCHANGED <<alive, nextId>>

\* ---- ensureGatewayRunningLogic ------------------------------------------
\* 1) Fast path: cached ready
\* (variant: the cached flag is ignored)
FastPathNever(st) == FALSE
FastPath(st) == st.gatewayReady

EnsureEntry(r) ==
  /\ pc[r] = "e_entry"
  /\ ~MicrotaskPending
  /\ LET h == IF loc[r].phase = "restart"
                THEN Staged(hist[r], <<"ensure">>) ELSE hist[r] IN
     IF FastPath(state)
       THEN /\ Return(r, state)
            /\ Record(r, Exited(h, "fast"))
       ELSE /\ Advance(r, "e_probe1", [loc[r] EXCEPT !.phase = "ensure"])
            /\ Record(r, h)
  /\ UNCHANGED <<state, kind, awaiting, alive, portOwner, nextId, clock>>
  /\ Unobserved

\* 2) Health check before starting
EnsureProbe1(r) ==
  /\ pc[r] = "e_probe1"
  /\ ~MicrotaskPending
  /\ \E o \in ProbeOutcomes :
       /\ Probed(r, o)
       /\ IF ProbeRejects(o)
            THEN /\ Throw(r, "ProbeErr")
                 /\ Record(r, Exited(Did(hist[r], "containerFetch"), "probeThrew"))
                 /\ state' = state
            ELSE /\ Record(r, Did(hist[r], "containerFetch"))
                 /\ IF isGatewayHealthy(o)
                      THEN /\ state' = [state EXCEPT !.gatewayReady = TRUE,
                                                     !.lastHealthCheck = clock]
                           /\ Advance(r, "e_disc1", loc[r])
                      ELSE /\ state' = state
                           /\ Advance(r, "e_find", loc[r])
  /\ UNCHANGED <<kind, awaiting, alive, portOwner, nextId, clock>>

\* discovery of the live process: first attempt, then one retry after 300 ms
\* (variant: the discovered process is not recorded)
DiscoveredNotRecorded(st, p) == st
Discovered(st, p) ==
  [st EXCEPT !.gatewayProcessId = p, !.lastGatewayStartAttempt = clock]

EnsureDiscover1(r) ==
  /\ pc[r] = "e_disc1"
  /\ ~MicrotaskPending
  /\ \E p \in FindOutcomes :
       IF p # NoProc
         THEN /\ state' = Discovered(state, p)
              /\ Return(r, state')
              /\ Record(r, Exited(Did(hist[r], "findExisting"), "health"))
         ELSE /\ state' = state
              /\ Advance(r, "e_disc2", loc[r])
              /\ Record(r, Did(hist[r], "findExisting"))
  /\ UNCHANGED <<kind, awaiting, alive, portOwner, nextId, clock>>
  /\ Unobserved

\* both discovery attempts returned null: the function returns with the
\* state as the probe left it (ready true, processId as cached)
\* (variant: the ready flag is taken back)
NotDiscoveredClearsReady(st) == [st EXCEPT !.gatewayReady = FALSE]
NotDiscovered(st) == st

EnsureDiscover2(r) ==
  /\ pc[r] = "e_disc2"
  /\ ~MicrotaskPending
  /\ \E p \in FindOutcomes :
       /\ state' = IF p # NoProc THEN Discovered(state, p) ELSE NotDiscovered(state)
       /\ Return(r, state')
       /\ Record(r, Exited(Did(hist[r], "findExisting"),
                           IF p # NoProc THEN "health" ELSE "healthUntracked"))
  /\ UNCHANGED <<kind, awaiting, alive, portOwner, nextId, clock>>
  /\ Unobserved

\* 3) Existing process might be starting
EnsureFind(r) ==
  /\ pc[r] = "e_find"
  /\ ~MicrotaskPending
  /\ \E p \in FindOutcomes :
       Advance(r, IF p # NoProc THEN "e_waitExisting" ELSE "e_probe2",
               [loc[r] EXCEPT !.existing = p])
  /\ Record(r, Did(hist[r], "findExisting"))
  /\ UNCHANGED <<state, kind, awaiting, alive, portOwner, nextId, clock>>
  /\ Unobserved

EnsureWaitExisting(r) ==
  /\ pc[r] = "e_waitExisting"
  /\ ~MicrotaskPending
  /\ \/ /\ PortOpens(loc[r].existing)
        /\ state' = [state EXCEPT !.gatewayReady = TRUE,
                                  !.gatewayProcessId = loc[r].existing,
                                  !.lastGatewayStartAttempt = clock,
                                  !.lastHealthCheck = clock]
        /\ Return(r, state')
        /\ Record(r, Exited(Did(hist[r], "waitForPort"), "existing"))
     \/ /\ Advance(r, "e_killExisting", loc[r])
        /\ Record(r, Did(hist[r], "waitForPort"))
        /\ UNCHANGED <<state, alive, portOwner, nextId>>
  /\ UNCHANGED <<kind, awaiting, clock>>
  /\ Unobserved

\* The try/catch around existingProcess.kill(): TRUE = the error is logged
\* and the function goes on to step 4.
\* (variant: the error propagates out of ensureGatewayRunningLogic)
ExistingKillErrorEscapes(raised) == ~raised
ExistingKillErrorCaught(raised) == TRUE

EnsureKillExisting(r) ==
  /\ pc[r] = "e_killExisting"
  /\ ~MicrotaskPending
  /\ \E raised \in BOOLEAN :
       /\ IF raised THEN UNCHANGED sandboxVars ELSE Killed(loc[r].existing)
       /\ LET h == [Did(hist[r], "kill") EXCEPT
                      !.killed = IF raised THEN @ ELSE @ \cup {loc[r].existing}] IN
          IF ExistingKillErrorCaught(raised)
            THEN /\ Advance(r, "e_probe2", [loc[r] EXCEPT !.existing = NoProc])
                 /\ Record(r, h)
            ELSE /\ Throw(r, "KillErr")
                 /\ Record(r, Exited(h, "killThrew"))
  /\ UNCHANGED <<state, kind, awaiting, clock>>
  /\ Unobserved

\* 4) Port in use: stopGateway(stateRef.gatewayProcessId), then free the port
EnsureProbe2(r) ==
  /\ pc[r] = "e_probe2"
  /\ ~MicrotaskPending
  /\ \E o \in ProbeOutcomes :
       /\ Probed(r, o)
       /\ IF ProbeRejects(o)
            THEN /\ Throw(r, "ProbeErr")
                 /\ Record(r, Exited(Did(hist[r], "containerFetch"), "probeThrew"))
            ELSE /\ Record(r, Did(hist[r], "containerFetch"))
                 /\ IF isGatewayHealthy(o)
                      THEN Advance(r, "s_graceful",
                                   [loc[r] EXCEPT !.stopArg = state.gatewayProcessId])
                      ELSE Advance(r, "e_mount", loc[r])
  /\ UNCHANGED <<state, kind, awaiting, alive, portOwner, nextId, clock>>


\* ---- stopGateway ----------------------------------------------------------
\* restartGatewayLogic, the two assignments after `await stopGateway(...)`
\* (variant: only processId is cleared)
ClearedKeepingReady(st) == [st EXCEPT !.gatewayProcessId = NoProc]
ClearedByRestart(st) ==
  [st EXCEPT !.gatewayProcessId = NoProc, !.gatewayReady = FALSE]

\* The try/catch around each kill() in stopGateway: TRUE = the error is
\* logged and the function goes on.
\* (variant: the error propagates out of stopGateway)
KillErrorEscapes(raised) == ~raised
KillErrorCaught(raised) == TRUE

\* stopGateway resolves; its caller's continuation runs to the next await.
\*   restartGatewayLogic: clear processId and ready, then clearLockFiles
\*   ensureGatewayRunningLogic step 4: processId = null, then waitForPortFree
StopReturns(r, h) ==
  LET l == [loc[r] EXCEPT !.stopArg = NoProc, !.existing = NoProc, !.polls = 0] IN
  IF loc[r].phase = "restart"
    THEN /\ state' = ClearedByRestart(state)
         /\ Record(r, Staged(h, <<"stop", "clear">>))
         /\ Advance(r, "r_clearLocks", l)
    ELSE /\ state' = [state EXCEPT !.gatewayProcessId = NoProc]
         /\ Record(r, h)
         /\ Advance(r, "w_poll", l)

\* 1) graceful stop through the CLI: the listening gateway exits, or the
\*    command fails / times out (logged)
StopGraceful(r) ==
  /\ pc[r] = "s_graceful"
  /\ ~MicrotaskPending
  /\ \/ /\ portOwner # NoProc
        /\ Killed(portOwner)
        /\ Record(r, [Did(hist[r], "gatewayStop") EXCEPT
                        !.killed = @ \cup {portOwner}])
     \/ /\ UNCHANGED sandboxVars
        /\ Record(r, Did(hist[r], "gatewayStop"))
  /\ Advance(r, IF loc[r].stopArg # NoProc THEN "s_list" ELSE "s_find", loc[r])
  /\ UNCHANGED <<state, kind, awaiting, clock>>
  /\ Unobserved

\* 2) listProcesses(): throws, or the tracked process is listed as running /
\*    starting, or it is not
StopList(r) ==
  /\ pc[r] = "s_list"
  /\ ~MicrotaskPending
  /\ \/ /\ loc[r].stopArg \in alive
        /\ Advance(r, "s_forcekill", [loc[r] EXCEPT !.existing = loc[r].stopArg])
     \/ Advance(r, "s_find", loc[r])
  /\ Record(r, Did(hist[r], "listProcesses"))
  /\ UNCHANGED <<state, kind, awaiting, alive, portOwner, nextId, clock>>
  /\ Unobserved

StopForceKill(r) ==
  /\ pc[r] = "s_forcekill"
  /\ ~MicrotaskPending
  /\ \E raised \in BOOLEAN :
       /\ IF raised THEN UNCHANGED sandboxVars ELSE Killed(loc[r].existing)
       /\ LET h == [Did(hist[r], "kill") EXCEPT
                      !.killRaised = @ \/ raised,
                      !.killed = IF raised THEN @ ELSE @ \cup {loc[r].existing}] IN
          IF KillErrorCaught(raised)
            THEN /\ Advance(r, "s_find", [loc[r] EXCEPT !.existing = NoProc])
                 /\ Record(r, h)
            ELSE /\ Throw(r, "KillErr")
                 /\ Record(r, Exited(h, "killThrew"))
  /\ UNCHANGED <<state, kind, awaiting, clock>>
  /\ Unobserved

\* 3) fallback: find any gateway process
StopFind(r) ==
  /\ pc[r] = "s_find"
  /\ ~MicrotaskPending
  /\ \E p \in FindOutcomes :
       IF p # NoProc
         THEN /\ Advance(r, "s_kill", [loc[r] EXCEPT !.existing = p])
              /\ Record(r, Did(hist[r], "findExisting"))
              /\ state' = state
         ELSE StopReturns(r, Did(hist[r], "findExisting"))
  /\ UNCHANGED <<kind, awaiting, alive, portOwner, nextId, clock>>
  /\ Unobserved

StopKill(r) ==
  /\ pc[r] = "s_kill"
  /\ ~MicrotaskPending
  /\ \E raised \in BOOLEAN :
       /\ IF raised THEN UNCHANGED sandboxVars ELSE Killed(loc[r].existing)
       /\ LET h == [Did(hist[r], "kill") EXCEPT
                      !.killRaised = @ \/ raised,
                      !.killed = IF raised THEN @ ELSE @ \cup {loc[r].existing}] IN
          IF KillErrorCaught(raised)
            THEN StopReturns(r, h)
            ELSE /\ Throw(r, "KillErr")
                 /\ Record(r, Exited(h, "killThrew"))
                 /\ state' = state
  /\ UNCHANGED <<kind, awaiting, clock>>
  /\ Unobserved

\* ---- waitForPortFree ------------------------------------------------------
\* The statement after the loop of waitForPortFree: a console.log, then the
\* function returns normally. TRUE = it throws instead.
\* (variant: running into the deadline is an error)
PortFreeTimeoutIsFatal == TRUE
PortFreeTimeoutThrows == FALSE

\* One iteration: probe; unhealthy -> return; healthy -> sleep, and the loop
\* condition `Date.now() < deadline` fails after MaxPolls iterations.
\* Returning resumes the caller: restartGatewayLogic calls
\* ensureGatewayRunningLogic, step 4 of the latter goes on to mountR2Storage.
WaitForPortFree(r) ==
  /\ pc[r] = "w_poll"
  /\ ~MicrotaskPending
  /\ \E o \in ProbeOutcomes :
       /\ Probed(r, o)
       /\ LET h == Did(hist[r], "containerFetch") IN
          IF ProbeRejects(o)
            THEN /\ Throw(r, "ProbeErr")
                 /\ Record(r, Exited(Did(hist[r], "containerFetch"), "probeThrew"))
          ELSE IF isGatewayHealthy(o) /\ loc[r].polls + 1 < MaxPolls
            THEN /\ Advance(r, "w_poll", [loc[r] EXCEPT !.polls = @ + 1])
                 /\ Record(r, Did(hist[r], "containerFetch"))
          ELSE IF isGatewayHealthy(o) /\ PortFreeTimeoutThrows
            THEN /\ Throw(r, "PortFreeTimeout")
                 /\ Record(r, Exited(h, "portFreeTimeout"))
          ELSE IF loc[r].phase = "restart"
            THEN /\ Advance(r, "e_entry", [loc[r] EXCEPT !.polls = 0])
                 /\ Record(r, Staged(h, <<"portfree">>))
            ELSE /\ Advance(r, "e_mount", [loc[r] EXCEPT !.polls = 0])
                 /\ Record(r, h)
  /\ UNCHANGED <<state, kind, awaiting, alive, portOwner, nextId, clock>>

\* ---- ensureGatewayRunningLogic, steps 5 and 6 ---------------------------
\* 5) mountR2Storage; on success lastGatewayStartAttempt = Date.now() and
\*    sandbox.startProcess is called
\* `await mountR2Storage(sandbox, env)` stands outside any try block: TRUE =
\* its rejection leaves ensureGatewayRunningLogic.
\* (variant: the rejection is swallowed and the start goes ahead)
MountErrorSwallowed(threw) == FALSE
MountErrorPropagates(threw) == threw

EnsureMount(r) ==
  /\ pc[r] = "e_mount"
  /\ ~MicrotaskPending
  /\ \E threw \in BOOLEAN :
       IF MountErrorPropagates(threw)
         THEN /\ Throw(r, "MountErr")
              /\ Record(r, Exited(Did(hist[r], "mountR2Storage"), "mountThrew"))
              /\ state' = state
         ELSE /\ state' = [state EXCEPT !.lastGatewayStartAttempt = clock]
              /\ Advance(r, "e_start", loc[r])
              /\ Record(r, [Did(hist[r], "mountR2Storage") EXCEPT
                              !.mounted = ~threw])
  /\ UNCHANGED <<kind, awaiting, alive, portOwner, nextId, clock>>
  /\ Unobserved

\* 6) sandbox.startProcess(start-moltbot.sh): a process with a fresh id, or
\*    an error that is rethrown
EnsureStart(r) ==
  /\ pc[r] = "e_start"
  /\ ~MicrotaskPending
  /\ LET h == [Did(hist[r], "startProcess") EXCEPT !.starts = @ + 1] IN
     \/ /\ nextId <= MaxProcs
        /\ alive' = alive \cup {nextId}
        /\ nextId' = nextId + 1
        /\ state' = [state EXCEPT !.gatewayProcessId = nextId]
        /\ Advance(r, "e_waitPort", [loc[r] EXCEPT !.process = nextId])
        /\ Record(r, h)
     \/ /\ Throw(r, "StartErr")
        /\ Record(r, Exited(h, "startThrew"))
        /\ UNCHANGED <<state, alive, nextId>>
  /\ UNCHANGED <<kind, awaiting, portOwner, clock>>
  /\ Unobserved

\* after process.waitForPort resolved: gatewayReady = true, lastHealthCheck = now
\* (variant: the ready flag is not set)
StartedNotReady(st) == [st EXCEPT !.lastHealthCheck = clock]
StartedReady(st) == [st EXCEPT !.gatewayReady = TRUE, !.lastHealthCheck = clock]

EnsureWaitPort(r) ==
  /\ pc[r] = "e_waitPort"
  /\ ~MicrotaskPending
  /\ \/ /\ PortOpens(loc[r].process)
        /\ state' = StartedReady(state)
        /\ Return(r, state')
        /\ Record(r, Exited(Did(hist[r], "waitForPort"), "fresh"))
     \/ /\ Advance(r, "e_getLogs", loc[r])
        /\ Record(r, Did(hist[r], "waitForPort"))
        /\ UNCHANGED <<state, alive, portOwner, nextId>>
  /\ UNCHANGED <<kind, awaiting, clock>>
  /\ Unobserved

\* catch (e) { try { logs = await process.getLogs(); throw new Error(stderr) }
\*             catch (logErr) { throw e } }
\* what the try block throws, then what the inner catch rethrows
ThrownInLogsTry(logsOk) == IF logsOk THEN "StderrErr" ELSE "GetLogsErr"
StartFailureError(logsOk) ==
  LET logErr == ThrownInLogsTry(logsOk) IN "PortWaitErr"

EnsureGetLogs(r) ==
  /\ pc[r] = "e_getLogs"
  /\ ~MicrotaskPending
  /\ \E logsOk \in BOOLEAN :
       /\ Throw(r, StartFailureError(logsOk))
       /\ Record(r, Exited(Did(hist[r], "getLogs"),
                           IF logsOk THEN "portFailLogs" ELSE "portFailNoLogs"))
  /\ UNCHANGED <<state, kind, awaiting, alive, portOwner, nextId, clock>>
  /\ Unobserved

\* ---- restartGatewayLogic --------------------------------------------------
\* const processId = stateRef.gatewayProcessId; await stopGateway(sandbox, processId)
RestartEntry(r) ==
  /\ pc[r] = "r_entry"
  /\ ~MicrotaskPending
  /\ Advance(r, "s_graceful",
             [loc[r] EXCEPT !.processId = state.gatewayProcessId,
                            !.stopArg = state.gatewayProcessId,
                            !.phase = "restart"])
  /\ UNCHANGED <<state, kind, awaiting, hist, alive, portOwner, nextId, clock>>
  /\ Unobserved

\* await clearLockFiles(sandbox): errors are caught inside; then
\* waitForPortFree begins
RestartClearLocks(r) ==
  /\ pc[r] = "r_clearLocks"
  /\ ~MicrotaskPending
  /\ Advance(r, "w_poll", [loc[r] EXCEPT !.polls = 0])
  /\ Record(r, Staged(Did(hist[r], "clearLockFiles"), <<"locks">>))
  /\ UNCHANGED <<state, kind, awaiting, alive, portOwner, nextId, clock>>
  /\ Unobserved

\* ---- handleGetState -------------------------------------------------------
\* new Date(t).toISOString() for a set timestamp, null for 0
IsoOrNull(t) == IF t # 0 THEN <<"iso", t>> ELSE <<"null">>

handleGetState(st) ==
  [seen |-> TRUE,
   gatewayReady |-> st.gatewayReady,
   gatewayProcessId |-> st.gatewayProcessId,
   lastGatewayStartAttempt |-> IsoOrNull(st.lastGatewayStartAttempt),
   lastHealthCheck |-> IsoOrNull(st.lastHealthCheck)]

\* (variant: the state request goes through runWithLock like the other two)
GetStateBehindLock ==
  /\ ~MicrotaskPending
  /\ ~LockHeld(startLock)
  /\ observed' = handleGetState(state)
  /\ probe' = NoProbe
  /\ UNCHANGED <<state, startLock, promise, perr, kind, pc, awaiting, loc, resp,
                 hist, alive, portOwner, nextId, clock>>

GetState ==
  /\ ~MicrotaskPending
  /\ observed' = handleGetState(state)
  /\ probe' = NoProbe
  /\ UNCHANGED <<state, startLock, promise, perr, kind, pc, awaiting, loc, resp,
                 hist, alive, portOwner, nextId, clock>>

\* ---- the world outside the owner ----------------------------------------
\* a gateway process exits on its own
Crash(p) ==
  /\ p \in alive
  /\ Killed(p)
  /\ UNCHANGED <<state, startLock, promise, perr, kind, pc, awaiting, loc, resp,
                 hist, clock>>
  /\ Unobserved

\* a live gateway process that had not opened its port yet opens it
Bind(p) ==
  /\ p \in alive
  /\ portOwner = NoProc
  /\ portOwner' = p
  /\ UNCHANGED <<state, startLock, promise, perr, kind, pc, awaiting, loc, resp,
                 hist, alive, nextId, clock>>
  /\ Unobserved

Next ==
  \/ \E r \in Reqs, k \in {"ensure", "restart"} : Issue(r, k)
  \/ \E r \in Reqs : WaiterResume(r)
  \/ \E r \in Reqs : EnsureEntry(r)
  \/ \E r \in Reqs : EnsureProbe1(r)
  \/ \E r \in Reqs : EnsureDiscover1(r)
  \/ \E r \in Reqs : EnsureDiscover2(r)
  \/ \E r \in Reqs : EnsureFind(r)
  \/ \E r \in Reqs : EnsureWaitExisting(r)
  \/ \E r \in Reqs : EnsureKillExisting(r)
  \/ \E r \in Reqs : EnsureProbe2(r)
  \/ \E r \in Reqs : StopGraceful(r)
  \/ \E r \in Reqs : StopList(r)
  \/ \E r \in Reqs : StopForceKill(r)
  \/ \E r \in Reqs : StopFind(r)
  \/ \E r \in Reqs : StopKill(r)
  \/ \E r \in Reqs : WaitForPortFree(r)
  \/ \E r \in Reqs : EnsureMount(r)
  \/ \E r \in Reqs : EnsureStart(r)
  \/ \E r \in Reqs : EnsureWaitPort(r)
  \/ \E r \in Reqs : EnsureGetLogs(r)
  \/ \E r \in Reqs : RestartEntry(r)
  \/ \E r \in Reqs : RestartClearLocks(r)
  \/ GetState
  \/ \E p \in ProcIds : Crash(p)
  \/ \E p \in ProcIds : Bind(p)

Spec == Init /\ [][Next]_vars

\* Every awaited capability call returns or fails within its own bound, and
\* the event loop runs the continuation: a suspended engine invocation takes
\* its next step, a waiter whose awaited promise settled resumes.
EngineStep(r) ==
  \/ EnsureEntry(r) \/ EnsureProbe1(r) \/ EnsureDiscover1(r) \/ EnsureDiscover2(r)
  \/ EnsureFind(r) \/ EnsureWaitExisting(r) \/ EnsureKillExisting(r)
  \/ EnsureProbe2(r) \/ StopGraceful(r) \/ StopList(r) \/ StopForceKill(r)
  \/ StopFind(r) \/ StopKill(r) \/ WaitForPortFree(r) \/ EnsureMount(r)
  \/ EnsureStart(r) \/ EnsureWaitPort(r) \/ EnsureGetLogs(r)
  \/ RestartEntry(r) \/ RestartClearLocks(r)

FairSpec ==
  /\ Spec
  /\ \A r \in Reqs : WF_vars(EngineStep(r)) /\ WF_vars(WaiterResume(r))

\* ---- type invariant -------------------------------------------------------
TypeOK ==
  /\ state.gatewayProcessId \in ProcIds \cup {NoProc}
  /\ state.gatewayReady \in BOOLEAN
  /\ startLock \in Reqs \cup {NoLock}
  /\ alive \subseteq ProcIds
  /\ portOwner \in alive \cup {NoProc}
  /\ nextId \in 1..(MaxProcs + 1)
  /\ clock \in 1..(NumReq + 1)


\* ---- properties -----------------------------------------------------------
IsPrefix(a, b) == Len(a) <= Len(b) /\ SubSeq(b, 1, Len(a)) = a

RestartStages == <<"stop", "clear", "locks", "portfree", "ensure">>

Finished(r) == pc[r] = "done"
RanEngine(r) == hist[r].invocations >= 1

\* C1: at most one engine invocation (ensureGatewayRunningLogic or
\* restartGatewayLogic) is in progress at any instant, whatever the
\* interleaving of ensure and restart requests.
C1_MutualExclusion ==
  Cardinality({r \in Reqs : InEngine(r)}) <= 1

\* C1 witness: a restart is queued while an ensure invocation is in flight.
C1_Witness ==
  \E a, b \in Reqs :
    /\ kind[a] = "ensure" /\ InEngine(a) /\ pc[a] = "e_waitPort"
    /\ kind[b] = "restart" /\ pc[b] = "waiting" /\ awaiting[b] = a

\* C2 (as claimed): every request that has been answered executed its own
\* engine invocation exactly once, whatever happened to the holder before it.
C2_EveryRequestRunsItsOwnInvocation ==
  \A r \in Reqs : Finished(r) => hist[r].invocations = 1

\* C3 (as claimed): when the fresh start's port wait fails and the logs are
\* retrievable, the call fails with the error embedding stderr; the original
\* port-wait error is propagated only when log retrieval fails.
C3_StartupFailureEmbedsStderr ==
  \A r \in Reqs :
    /\ hist[r].exit = "portFailLogs" => resp[r].error = "StderrErr"
    /\ (Finished(r) /\ RanEngine(r) /\ resp[r].error = "PortWaitErr")
         => hist[r].exit = "portFailNoLogs"

\* C4: an ensure invocation that finds cached ready true ends in that step,
\* having called no capability, leaving the four GatewayState fields and the
\* sandbox as they were, and answers ok with the cached ready and processId.
C4_FastPathIsPure ==
  [][\A r \in Reqs :
       (kind[r] = "ensure" /\ pc[r] = "e_entry" /\ state.gatewayReady
          /\ pc'[r] # pc[r])
       => /\ pc'[r] = "done"
          /\ state' = state
          /\ <<alive, portOwner, nextId>>' = <<alive, portOwner, nextId>>
          /\ hist'[r].calls = {}
          /\ hist'[r].starts = 0
          /\ resp'[r] = [status |-> 200, ok |-> TRUE, gatewayReady |-> TRUE,
                         processId |-> state.gatewayProcessId, error |-> "none"]
    ]_vars

\* C4 witness: an ensure answered from the cache while a process is tracked.
C4_Witness ==
  \E r \in Reqs :
    /\ kind[r] = "ensure" /\ Finished(r) /\ hist[r].exit = "fast"
    /\ hist[r].pre.gatewayReady /\ hist[r].pre.gatewayProcessId # NoProc
    /\ resp[r].ok /\ resp[r].processId = hist[r].pre.gatewayProcessId

\* C5: of two ensure calls of which the second queued behind the first, the
\* second runs its engine only after the first completed; taking the lock
\* from a first that succeeded it takes the fast path and reports the state the
\* first left; process start is invoked at most once across both.
C5_ConcurrentEnsuresSerialized ==
  \A a, b \in Reqs :
    (a # b /\ kind[a] = "ensure" /\ kind[b] = "ensure" /\ awaiting[b] = a)
    => /\ InEngine(b) => Finished(a)
       /\ (Finished(b) /\ RanEngine(b) /\ resp[a].ok)
            => /\ hist[b].exit = "fast"
               /\ resp[b] = resp[a]
       /\ hist[a].starts + hist[b].starts <= 1

\* C5 witness: the first ensure started the gateway, the second, queued
\* behind it, was answered from the cache.
C5_Witness ==
  \E a, b \in Reqs :
    /\ a # b /\ kind[a] = "ensure" /\ kind[b] = "ensure" /\ awaiting[b] = a
    /\ Finished(a) /\ hist[a].exit = "fresh" /\ hist[a].starts = 1
    /\ Finished(b) /\ hist[b].exit = "fast" /\ hist[b].starts = 0

\* C6 (as claimed): no getState Response pairs ready = true with a null
\* processId.
C6_ReadyImpliesProcessId ==
  (observed.seen /\ observed.gatewayReady) => observed.gatewayProcessId # NoProc

\* C7: a restart performs Stop, the clearing of processId and ready, the
\* lock-file removal, the port-free wait and Ensure in that order, also when
\* the gateway was cached ready; its Ensure is entered with ready = false and
\* never leaves by the cached fast path.
C7_RestartTearsDownFirst ==
  \A r \in Reqs :
    kind[r] = "restart" =>
      /\ IsPrefix(hist[r].stages, RestartStages)
      /\ pc[r] = "e_entry" =>
           /\ hist[r].stages = SubSeq(RestartStages, 1, 4)
           /\ "gatewayStop" \in hist[r].calls
           /\ ~state.gatewayReady
           /\ state.gatewayProcessId = NoProc
      /\ (loc[r].phase = "ensure" \/ Finished(r)) =>
           /\ RanEngine(r) => hist[r].stages = RestartStages
           /\ hist[r].exit # "fast"

\* C7 witness: a restart issued while the gateway was cached ready has gone
\* through all five steps and succeeded.
C7_Witness ==
  \E r \in Reqs :
    /\ kind[r] = "restart" /\ hist[r].pre.gatewayReady
    /\ Finished(r) /\ resp[r].ok /\ hist[r].stages = RestartStages

\* C8 (as claimed): after a successful restart the cached processId differs
\* from the one tracked before it (the sandbox gives every started process a
\* fresh identifier).
C8_RestartChangesProcessId ==
  \A r \in Reqs :
    (kind[r] = "restart" /\ Finished(r) /\ resp[r].ok
       /\ hist[r].pre.gatewayProcessId # NoProc)
    => resp[r].processId # hist[r].pre.gatewayProcessId

\* C9: a kill() that raises inside stopGateway does not end the invocation:
\* the fallback search still runs, stopGateway returns, and a restart goes on
\* to clear the lock files, wait for the port and attempt Ensure.
C9_KillFailureIsolated ==
  \A r \in Reqs :
    hist[r].killRaised =>
      /\ hist[r].exit # "killThrew"
      /\ pc[r] \notin {"s_forcekill", "s_find", "s_kill"}
           => "findExisting" \in hist[r].calls
      /\ (kind[r] = "restart" /\ Finished(r))
           => /\ hist[r].stages = RestartStages
              /\ "clearLockFiles" \in hist[r].calls

\* C9 witness: a restart in which a kill raised has attempted Ensure.
C9_Witness ==
  \E r \in Reqs :
    /\ kind[r] = "restart" /\ hist[r].killRaised
    /\ Finished(r) /\ hist[r].stages = RestartStages

\* C10 (as claimed): when an engine invocation fails, cached ready and
\* processId equal the values they had when the invocation began.
C10_FailureRestoresState ==
  [][\A r \in Reqs :
       (pc[r] # "done" /\ pc'[r] = "done" /\ ~resp'[r].ok
          /\ hist'[r].invocations = 1)
       => /\ state'.gatewayReady = hist'[r].pre.gatewayReady
          /\ state'.gatewayProcessId = hist'[r].pre.gatewayProcessId
    ]_vars

\* C11: while an ensure or restart is in flight, a state request is never
\* answered with ready = true together with the id of a process that the
\* in-flight engine has already killed.
C11_NoReadyWithKilledProcess ==
  \A r \in Reqs :
    InEngine(r) /\ observed.seen /\ observed.gatewayReady
      => observed.gatewayProcessId \notin hist[r].killed

\* C12: a state request is answered whenever the owner can take a request at
\* all, lock held or not, and answering it changes no field of the cached
\* state, not the lock slot, no promise and no request's position: the
\* Response carries the cached values of that instant.
C12_GetStateIsLockFreeAndReadOnly ==
  /\ [](~MicrotaskPending => ENABLED GetState)
  /\ [][observed'.seen =>
          /\ observed' = handleGetState(state)
          /\ UNCHANGED <<state, startLock, promise, perr, pc, awaiting, resp>>]_vars

C12_Witness ==
  /\ observed.seen
  /\ \E r \in Reqs : InEngine(r) /\ startLock = r /\ pc[r] # "e_entry"

\* C13: with every capability call returning or failing in bounded time, an
\* ensure or restart that entered the engine finishes with one Response (200
\* or 503) and no longer holds the lock; waitForPortFree makes at most
\* MaxPolls probes, and leaving its loop at the deadline with the probe still
\* healthy continues the sequence, never ends it with an error.
C13_EngineTerminates ==
  /\ \A r \in Reqs :
       InEngine(r) ~> (Finished(r) /\ startLock # r /\ resp[r].status \in {200, 503})
  /\ [](\A r \in Reqs : loc[r].polls < MaxPolls /\ hist[r].exit # "portFreeTimeout")
  /\ [](probe.seen /\ probe.healthy => pc[probe.by] # "done")

C13_Witness ==
  /\ probe.seen
  /\ probe.healthy
  /\ pc[probe.by] \in {"e_entry", "e_mount"}

\* C14: the cached ready flag goes from false to true only in the step that
\* resumes after a health probe that got an answer and reported healthy
\* (step 2), or after a waitForPort that resolved (existing process, fresh
\* process), with a listener on the port; never after a probe that failed,
\* a port wait that timed out, or a start that failed.
C14_ReadyOnlyAfterSuccess ==
  [][(~state.gatewayReady /\ state'.gatewayReady) =>
       /\ portOwner' # NoProc
       /\ \/ /\ probe'.seen
             /\ ~probe'.threw
             /\ probe'.healthy
             /\ pc[probe'.by] = "e_probe1"
          \/ \E r \in Reqs :
               /\ pc[r] \in {"e_waitExisting", "e_waitPort"}
               /\ pc'[r] = "done"
               /\ resp'[r].ok]_vars

C14_Witness ==
  /\ state.gatewayReady
  /\ probe.seen
  /\ probe.healthy
  /\ pc[probe.by] = "e_disc1"

\* C15: the state produced by a step that sets processId to null (restart's
\* clearing after stopGateway, ensure's step 4 after stopGateway) has ready
\* false, and it stays so while the invocation is suspended at the next await.
C15_NullProcessIdIsNotReady ==
  \A r \in Reqs :
    (pc[r] = "r_clearLocks" \/ (pc[r] = "w_poll" /\ loc[r].phase = "ensure"))
      => state.gatewayProcessId = NoProc /\ ~state.gatewayReady

C15_Witness ==
  \E r \in Reqs :
    /\ kind[r] = "ensure"
    /\ pc[r] = "w_poll"
    /\ hist[r].pre.gatewayProcessId # NoProc

\* C16: an ensure sequence that finds the cached ready false and its first
\* probe healthy ends with a success Response with ready true, and when one
\* of the two discovery attempts finds a process the cached and the returned
\* processId are the id of that live process; an ensure request on that path
\* starts no process, kills none and mounts nothing: it calls only the probe
\* and the discovery.
HealthPath(r) ==
  \/ pc[r] \in {"e_disc1", "e_disc2"}
  \/ hist[r].exit \in {"health", "healthUntracked"}

C16_HealthyProbeOnlyDiscovers ==
  /\ [](\A r \in Reqs : HealthPath(r) =>
          /\ InEngine(r) => state.gatewayReady
          /\ hist[r].starts = 0
          /\ kind[r] = "ensure" =>
               /\ ~hist[r].pre.gatewayReady
               /\ hist[r].killed = {}
               /\ hist[r].calls \subseteq {"containerFetch", "findExisting"}
          /\ Finished(r) =>
               /\ resp[r].ok
               /\ resp[r].gatewayReady
               /\ hist[r].exit = "health" => resp[r].processId # NoProc)
  /\ [][\A r \in Reqs :
          hist[r].exit = "none" /\ hist'[r].exit = "health" =>
            /\ state'.gatewayProcessId \in alive
            /\ resp'[r].processId = state'.gatewayProcessId]_vars

C16_Witness ==
  \E r \in Reqs :
    /\ kind[r] = "ensure"
    /\ hist[r].exit = "health"
    /\ resp[r].processId \in alive

\* C17: once waitForPort on a discovered existing process has failed, the
\* invocation calls kill on that process before it can reach startProcess,
\* and a kill that raises does not end the invocation: it goes on to the
\* fresh-start path.
ExistingWaitFailed(r) ==
  /\ "waitForPort" \in hist[r].calls
  /\ hist[r].starts = 0
  /\ hist[r].exit # "existing"

C17_UnreachableExistingIsKilledFirst ==
  \A r \in Reqs :
    /\ ExistingWaitFailed(r) /\ pc[r] # "e_killExisting" => "kill" \in hist[r].calls
    /\ pc[r] = "e_killExisting" => loc[r].existing # NoProc
    /\ hist[r].exit # "killThrew"
    /\ resp[r].error # "KillErr"

C17_Witness ==
  \E r \in Reqs :
    /\ kind[r] = "ensure"
    /\ pc[r] = "e_start"
    /\ ExistingWaitFailed(r)
    /\ "kill" \in hist[r].calls
    /\ "gatewayStop" \notin hist[r].calls
    /\ hist[r].killed = {}

\* C18: one ensure invocation calls startProcess at most once, and only
\* after mountR2Storage resolved in that same invocation; an invocation whose
\* mount failed has started nothing.
C18_StartOnceAfterMount ==
  \A r \in Reqs :
    /\ hist[r].starts <= 1
    /\ hist[r].starts = 1 <=> "startProcess" \in hist[r].calls
    /\ pc[r] = "e_start" \/ hist[r].starts = 1 => hist[r].mounted
    /\ pc[r] = "e_start" => hist[r].starts = 0
    /\ hist[r].exit = "mountThrew" => hist[r].starts = 0 /\ ~hist[r].mounted

C18_Witness ==
  \E r \in Reqs :
    /\ Finished(r)
    /\ hist[r].exit = "mountThrew"
    /\ resp[r].error = "MountErr"

\* C19: isGatewayHealthy never rejects: a fetch that throws, is refused or
\* times out makes it return false, the invocation goes on to its next step,
\* and no ensure or restart ends with an error raised by the probe.
C19_ProbeNeverRaises ==
  /\ probe.seen =>
       /\ ~probe.rejected
       /\ probe.threw => ~probe.healthy
       /\ InEngine(probe.by)
  /\ \A r \in Reqs : hist[r].exit # "probeThrew" /\ resp[r].error # "ProbeErr"

C19_Witness ==
  /\ probe.seen
  /\ probe.threw
  /\ pc[probe.by] \in {"e_find", "e_mount", "e_entry"}

\* C20: a probe whose fetch was answered within the timeout reports healthy
\* exactly when the answer's status is not 5xx, whatever the status code.
C20_HealthyIffNotServerError ==
  probe.seen /\ ~probe.threw =>
    (probe.healthy <=> probe.status \notin 500..599)

\* C21: in the step in which an ensure or restart finishes with a success
\* Response, the cached ready is true and the Response reports it; when the
\* invocation ends on the fresh-start path (waitForPort of the process it
\* started resolved), the cached and the returned processId are the id of
\* that process.
C21_SuccessMeansReady ==
  [][\A r \in Reqs :
       (pc[r] # "done" /\ pc'[r] = "done" /\ resp'[r].ok) =>
         /\ state'.gatewayReady
         /\ resp'[r].gatewayReady
         /\ resp'[r].processId = state'.gatewayProcessId
         /\ pc[r] = "e_waitPort" =>
              /\ loc[r].process # NoProc
              /\ state'.gatewayProcessId = loc[r].process
              /\ hist'[r].exit = "fresh"]_vars

\* C21 witness: the cold start: cached {ready: false, processId: null}, no
\* existing process waited for, nothing stopped, one process started, success.
C21_Witness ==
  \E r \in Reqs :
    /\ kind[r] = "ensure" /\ Finished(r) /\ resp[r].ok
    /\ ~hist[r].pre.gatewayReady /\ hist[r].pre.gatewayProcessId = NoProc
    /\ hist[r].exit = "fresh" /\ hist[r].starts = 1
    /\ "kill" \notin hist[r].calls /\ "gatewayStop" \notin hist[r].calls
    /\ resp[r].gatewayReady /\ resp[r].processId # NoProc

\* C22: the cached ready goes from true to false only in the step of a
\* restart holding the lock that follows its stopGateway; no ensure request
\* and no failing exit clears it. An ensure request that begins with ready
\* true therefore calls no capability (no probe) and answers with the cached
\* ready and processId, also when the gateway has died in the meantime.
C22_OnlyRestartClearsReady ==
  /\ [][(state.gatewayReady /\ ~state'.gatewayReady) =>
          \E r \in Reqs :
            /\ kind[r] = "restart"
            /\ startLock = r
            /\ pc[r] \in {"s_find", "s_kill"}
            /\ pc'[r] = "r_clearLocks"]_vars
  /\ [](\A r \in Reqs :
          (kind[r] = "ensure" /\ RanEngine(r) /\ hist[r].pre.gatewayReady) =>
            /\ hist[r].calls = {}
            /\ pc[r] \in {"e_entry", "done"}
            /\ Finished(r) =>
                 /\ hist[r].exit = "fast"
                 /\ resp[r].ok
                 /\ resp[r].gatewayReady
                 /\ resp[r].processId = hist[r].pre.gatewayProcessId)

\* C22 witness: the gateway has died, nothing listens on the port, and an
\* ensure was still answered from the cache with ready true.
C22_Witness ==
  \E r \in Reqs :
    /\ kind[r] = "ensure" /\ Finished(r) /\ hist[r].exit = "fast"
    /\ resp[r].gatewayReady
    /\ resp[r].processId \notin alive
    /\ portOwner = NoProc
    /\ state.gatewayReady


====
